---- MODULE Spec2Model ----
(***************************************************************************)
(* HSIDataset (src/src/dataset.py): the index of hyperspectral cube files  *)
(* joined with the metadata CSV, and its lookup operations.                *)
(*                                                                         *)
(* A Python str is a sequence of one-character strings; a CSV cell is      *)
(* [str |-> chars] or the float NaN, [float |-> "nan"].                    *)
(***************************************************************************)
EXTENDS Integers, Sequences, FiniteSets, TLC

VARIABLES pc, hsi_data_dir, csv_file, metadata_df, cube_samples, sample_map,
          printed, last, loaded, norm_trace

vars == <<pc, hsi_data_dir, csv_file, metadata_df, cube_samples, sample_map,
          printed, last, loaded, norm_trace>>

-----------------------------------------------------------------------------
(* Bounds of the explored inputs                                           *)

\* directory entries listed by os.listdir
MaxFiles == 2
\* data rows of the metadata CSV
MaxRows == 2
\* characters of an identifier handed to the normalizer on its own
MaxIdLen == 4

-----------------------------------------------------------------------------
(* str helpers                                                             *)

Digits == {"0", "1", "2", "3", "4", "5", "6", "7", "8", "9"}

\* str.isspace for the characters of the model's alphabet
Whitespace == {" ", "\t", "\n"}

\* code points, the order Python compares str by
Ord(c) ==
    CASE c = "\t" -> 9 [] c = "\n" -> 10 [] c = " " -> 32 [] c = "." -> 46
      [] c = "0" -> 48 [] c = "1" -> 49 [] c = "2" -> 50 [] c = "3" -> 51
      [] c = "4" -> 52 [] c = "5" -> 53 [] c = "6" -> 54 [] c = "7" -> 55
      [] c = "8" -> 56 [] c = "9" -> 57 [] c = "S" -> 83 [] c = "_" -> 95

Drop(s, n) == SubSeq(s, n + 1, Len(s))

\* str.startswith
StartsWith(s, p) == Len(s) >= Len(p) /\ SubSeq(s, 1, Len(p)) = p

\* s < t for two str
RECURSIVE StrLess(_, _)
StrLess(s, t) ==
    IF t = <<>> THEN FALSE
    ELSE IF s = <<>> THEN TRUE
    ELSE IF Head(s) = Head(t) THEN StrLess(Tail(s), Tail(t))
    ELSE Ord(Head(s)) < Ord(Head(t))

\* str.replace("S.", "S"): left to right, occurrences do not overlap
RECURSIVE ReplaceSDot(_)
ReplaceSDot(s) ==
    IF s = <<>> THEN <<>>
    ELSE IF StartsWith(s, <<"S", ".">>) THEN <<"S">> \o ReplaceSDot(Drop(s, 2))
    ELSE <<Head(s)>> \o ReplaceSDot(Tail(s))

\* str.replace(" ", "")
RECURSIVE RemoveSpaces(_)
RemoveSpaces(s) ==
    IF s = <<>> THEN <<>>
    ELSE IF Head(s) = " " THEN RemoveSpaces(Tail(s))
    ELSE <<Head(s)>> \o RemoveSpaces(Tail(s))

RECURSIVE LStrip(_)
LStrip(s) == IF s # <<>> /\ Head(s) \in Whitespace THEN LStrip(Tail(s)) ELSE s

RECURSIVE RStrip(_)
RStrip(s) ==
    IF s # <<>> /\ s[Len(s)] \in Whitespace THEN RStrip(SubSeq(s, 1, Len(s) - 1))
    ELSE s

\* str.strip()
Strip(s) == RStrip(LStrip(s))

\* int(s) for a str of decimal digits
RECURSIVE ToInt(_)
ToInt(s) ==
    IF s = <<>> THEN 0
    ELSE 10 * ToInt(SubSeq(s, 1, Len(s) - 1)) + (Ord(s[Len(s)]) - Ord("0"))

-----------------------------------------------------------------------------
(* Identifier normalisation                                                *)

NaN == [float |-> "nan"]
Str(s) == [str |-> s]
IsStr(v) == DOMAIN v = {"str"}

\* HSIDataset._normalize_id_csv
NormalizeIdCsv(sample_id) ==
    IF IsStr(sample_id)
    THEN Str(Strip(RemoveSpaces(ReplaceSDot(sample_id.str))))
    ELSE sample_id

\* HSIDataset._normalize_id_filename
NormalizeIdFilename(filename_id_part) == Strip(filename_id_part)

\* HSIDataset._extract_patient_number
ExtractPatientNumber(sample_id) ==
    IF StartsWith(sample_id, <<"S">>) THEN Drop(sample_id, 1) ELSE sample_id

-----------------------------------------------------------------------------
(* The filename pattern                                                    *)

FilePrefix ==
    <<"H", "y", "p", "e", "r", "P", "r", "o", "b", "e", "1", ".", "1", "_",
      "B", "i", "o", "p", "s", "y", "_">>
FovMarker == <<"_", "F", "O", "V">>
BisMarker == <<"_", "B", "I", "S">>
MatExt == <<".", "m", "a", "t">>

\* Python's None
PyNone == [none |-> TRUE]
NoMatch == [matched |-> FALSE]

\* the length of the run of \d that starts at position p of s
RECURSIVE DigitRun(_, _)
DigitRun(s, p) ==
    IF p <= Len(s) /\ s[p] \in Digits THEN 1 + DigitRun(s, p + 1) ELSE 0

\* the literal lit stands at position p of s
HasAt(s, p, lit) ==
    p + Len(lit) - 1 <= Len(s) /\ SubSeq(s, p, p + Len(lit) - 1) = lit

\* $ at position p: the end of the str, or just before a newline that ends it
EndAt(s, p) == p = Len(s) + 1 \/ (p = Len(s) /\ s[p] = "\n")

\* \.mat$
MatchExt(s, group1, group2, p) ==
    IF HasAt(s, p, MatExt) /\ EndAt(s, p + Len(MatExt))
    THEN [matched |-> TRUE, group1 |-> group1, group2 |-> group2]
    ELSE NoMatch

\* (?:_BIS)?
MatchBis(s, group1, group2, p) ==
    MatchExt(s, group1, group2,
             IF HasAt(s, p, BisMarker) THEN p + Len(BisMarker) ELSE p)

\* (?:_FOV(\d+))? with n digits after _FOV at position p
MatchFov(s, group1, p, n) ==
    IF HasAt(s, p, FovMarker) /\ n > 0
    THEN MatchBis(s, group1,
                  Str(SubSeq(s, p + Len(FovMarker), p + Len(FovMarker) + n - 1)),
                  p + Len(FovMarker) + n)
    ELSE MatchBis(s, group1, PyNone, p)

\* the second \d+ of group 1: n digits at position p; group 1 began at g
MatchMinor(s, g, p, n) ==
    IF n = 0 THEN NoMatch
    ELSE MatchFov(s, SubSeq(s, g, p + n - 1), p + n,
                  DigitRun(s, p + n + Len(FovMarker)))

\* the first \d+ of group 1 and the dot: n digits at position p
MatchMajor(s, g, p, n) ==
    IF n = 0 \/ ~HasAt(s, p + n, <<".">>) THEN NoMatch
    ELSE MatchMinor(s, g, p + n + 1, DigitRun(s, p + n + 1))

\* pattern.match(filename) for
\* ^HyperProbe1\.1_Biopsy_(S\d+\.\d+)(?:_FOV(\d+))?(?:_BIS)?\.mat$
\* Every \d+ is followed by a non-digit and each optional group by a literal
\* it cannot begin, so the greedy match is the only candidate.
PatternMatch(filename) ==
    IF ~HasAt(filename, 1, FilePrefix \o <<"S">>) THEN NoMatch
    ELSE MatchMajor(filename, Len(FilePrefix) + 1, Len(FilePrefix) + 2,
                    DigitRun(filename, Len(FilePrefix) + 2))

-----------------------------------------------------------------------------
(* The metadata table                                                      *)

EmptyDataFrame == [columns |-> {}, rows |-> <<>>, index |-> "RangeIndex"]

\* DataFrame.empty: some axis has length 0
DfEmpty(df) == df.columns = {} \/ df.rows = <<>>

\* pd.read_csv under the try/except of __init__: the frame and what is printed
ReadCsv(csv) ==
    CASE csv.status = "missing" ->
            [df |-> EmptyDataFrame, printed |-> <<[msg |-> "CsvNotFound"]>>]
      [] csv.status = "unparseable" ->
            [df |-> EmptyDataFrame, printed |-> <<[msg |-> "CsvReadError"]>>]
      [] csv.status = "ok" ->
            [df |-> [columns |-> csv.columns, rows |-> csv.rows,
                     index |-> "RangeIndex"],
             printed |-> <<>>]

\* df[col] = values, one value per row
WithColumn(df, col, values) ==
    [df EXCEPT !.columns = df.columns \cup {col},
               !.rows = [i \in 1..Len(df.rows) |->
                            [c \in (DOMAIN df.rows[i]) \cup {col} |->
                                IF c = col THEN values[i] ELSE df.rows[i][c]]]]

\* __init__ after the read: normalise the id column and index by it
IndexMetadata(df, read_printed) ==
    IF ~DfEmpty(df) /\ "id" \in df.columns
    THEN [df |-> [WithColumn(df, "normalized_id",
                             [i \in 1..Len(df.rows) |-> NormalizeIdCsv(df.rows[i].id)])
                  EXCEPT !.index = "normalized_id"],
          printed |-> read_printed]
    ELSE [df |-> IF "normalized_id" \notin df.columns
                 THEN WithColumn(df, "normalized_id",
                                 [i \in 1..Len(df.rows) |-> NaN])
                 ELSE df,
          printed |-> read_printed \o <<[msg |-> "NoMetadata"]>>]

\* __init__, the metadata part
LoadMetadata(csv) == IndexMetadata(ReadCsv(csv).df, ReadCsv(csv).printed)

\* the rows df.loc[key] selects, in table order
RowsAt(df, key) ==
    SelectSeq(df.rows, LAMBDA row : row.normalized_id = Str(key))

\* HasMetadata looking the identifier up in the raw id column
HasMetadataRawId(df, normalized_file_id) ==
    /\ ~DfEmpty(df)
    /\ df.index = "normalized_id"
    /\ SelectSeq(df.rows, LAMBDA row : row.id = Str(normalized_file_id)) # <<>>

\* the three-part condition of _find_cube_samples
HasMetadata(df, normalized_file_id) ==
    /\ ~DfEmpty(df)
    /\ df.index = "normalized_id"
    /\ RowsAt(df, normalized_file_id) # <<>>

\* meta_entry.iloc[0].to_dict() or meta_entry.to_dict()
MetadataOf(df, normalized_file_id) == RowsAt(df, normalized_file_id)[1]

-----------------------------------------------------------------------------
(* The scan of the cube directory                                          *)

\* IsDir without the check
IsDirUnchecked(dir) == TRUE

\* os.path.isdir
IsDir(dir) == dir.isdir

\* os.listdir: the entries in the order the file system gives them
ListDir(dir) ==
    IF dir.isdir THEN [raised |-> FALSE, names |-> dir.listing]
    ELSE [raised |-> TRUE, names |-> <<>>]

\* os.path.join
JoinPath(dir, filename) == dir.path \o <<"/">> \o filename

\* fov_number_str if fov_number_str else "1"
FovKey(fov_number_str) ==
    IF IsStr(fov_number_str) /\ fov_number_str.str # <<>>
    THEN fov_number_str.str
    ELSE <<"1">>

\* f"{patient_number}_{fov_key}"
CombinedId(patient_number, fov_key) == patient_number \o <<"_">> \o fov_key

\* the body of `if match:` once the identifiers are computed
ScanMatched(dir, df, filename, normalized_file_id, combined_id, fov_key) ==
    IF HasMetadata(df, normalized_file_id)
    THEN [samples |->
            <<[combined_id |-> combined_id,
               patient_id |-> normalized_file_id,
               fov |-> fov_key,
               file_path |-> JoinPath(dir, filename),
               metadata |-> MetadataOf(df, normalized_file_id)]>>,
          printed |->
            IF Len(RowsAt(df, normalized_file_id)) > 1
            THEN <<[msg |-> "MultipleMetadata", id |-> normalized_file_id]>>
            ELSE <<>>]
    ELSE [samples |-> <<>>,
          printed |-> <<[msg |-> "MetadataNotFound", id |-> normalized_file_id,
                         file |-> filename]>>]

\* the identifiers of a matched name: group 1 and group 2 of the match
ScanGroups(dir, df, filename, raw_sample_id_part, fov_number_str) ==
    ScanMatched(dir, df, filename,
                NormalizeIdFilename(raw_sample_id_part),
                CombinedId(ExtractPatientNumber(
                               NormalizeIdFilename(raw_sample_id_part)),
                           FovKey(fov_number_str)),
                FovKey(fov_number_str))

\* `if match:` has no else branch
ScanMatch(dir, df, filename, match) ==
    IF ~match.matched THEN [samples |-> <<>>, printed |-> <<>>]
    ELSE ScanGroups(dir, df, filename, match.group1, match.group2)

\* one pass of the for loop: the sample appended (if any) and what is printed
ScanEntry(dir, df, filename) ==
    ScanMatch(dir, df, filename, PatternMatch(filename))

Concat(a, b) ==
    [samples |-> a.samples \o b.samples, printed |-> a.printed \o b.printed]

\* the for loop over the entries
RECURSIVE ScanEntries(_, _, _)
ScanEntries(dir, df, names) ==
    IF names = <<>> THEN [samples |-> <<>>, printed |-> <<>>]
    ELSE Concat(ScanEntry(dir, df, Head(names)),
                ScanEntries(dir, df, Tail(names)))

\* the scan of the entries os.listdir gave, or its exception passed on
ScanListed(dir, df, entries) ==
    IF entries.raised
    THEN [raised |-> TRUE, samples |-> <<>>, printed |-> <<>>]
    ELSE [raised |-> FALSE] @@ ScanEntries(dir, df, entries.names)

\* HSIDataset._find_cube_samples
FindCubeSamples(dir, df) ==
    IF ~IsDir(dir)
    THEN [raised |-> FALSE, samples |-> <<>>,
          printed |-> <<[msg |-> "DirNotFound"]>>]
    ELSE ScanListed(dir, df, ListDir(dir))

\* x put into the sorted list after every element that is not greater
InsertSorted(sorted, x) ==
    LET k == Cardinality({i \in 1..Len(sorted) :
                 ~StrLess(x.combined_id, sorted[i].combined_id)})
    IN SubSeq(sorted, 1, k) \o <<x>> \o SubSeq(sorted, k + 1, Len(sorted))

\* list.sort(key=lambda x: x["combined_id"]): stable, ascending str order
RECURSIVE SortByCombinedId(_)
SortByCombinedId(samples) ==
    IF samples = <<>> THEN <<>>
    ELSE InsertSorted(SortByCombinedId(SubSeq(samples, 1, Len(samples) - 1)),
                      samples[Len(samples)])

\* {s["combined_id"]: i for i, s in enumerate(cube_samples)}: a later index
\* replaces an earlier one under the same key. Indices are Python's, from 0.
BuildSampleMap(samples) ==
    [k \in {samples[i].combined_id : i \in 1..Len(samples)} |->
        CHOOSE i \in 0..(Len(samples) - 1) :
            /\ samples[i + 1].combined_id = k
            /\ \A j \in 0..(Len(samples) - 1) :
                  samples[j + 1].combined_id = k => j <= i]

-----------------------------------------------------------------------------
(* The inputs explored                                                     *)

DirPath == <<"d">>
Stem == FilePrefix \o <<"S", "1", ".", "2">>

\* names a cube directory may hold
FileNames ==
    { Stem \o FovMarker \o <<"2">> \o MatExt,               \* S1.2, FOV 2
      Stem \o FovMarker \o <<"2">> \o BisMarker \o MatExt,  \* S1.2, FOV 2, _BIS
      Stem \o FovMarker \o <<"1", "0">> \o MatExt,          \* S1.2, FOV 10
      Stem \o <<"0">> \o MatExt,                            \* S1.20, no FOV
      <<"n", "o", "t", "e", "s", ".", "t", "x", "t">> }

SeqsUpTo(S, n) == UNION {[1..k -> S] : k \in 0..n}

\* os.listdir names each entry once, in an order of the file system's choosing
Listings(S, n) ==
    {l \in SeqsUpTo(S, n) : \A i, j \in 1..Len(l) : i # j => l[i] # l[j]}

Directories ==
    {[path |-> DirPath, isdir |-> FALSE, listing |-> <<>>]} \cup
    {[path |-> DirPath, isdir |-> TRUE, listing |-> l] :
        l \in Listings(FileNames, MaxFiles)}

\* rows of a CSV with an id column
IdRows ==
    { [id |-> Str(<<"S", "1", ".", "2">>), type_of_tumor |-> "Glioma"],
      [id |-> Str(<<"S", ".", "1", ".", "2">>), type_of_tumor |-> "Meningioma"],
      [id |-> Str(<<" ", "S", "1", ".", "2", "0">>), type_of_tumor |-> "Glioma"] }

\* rows of a CSV without one
OtherRows == { [type_of_tumor |-> "Glioma"] }

CsvFiles ==
    {[status |-> "missing"], [status |-> "unparseable"]} \cup
    {[status |-> "ok", columns |-> {"id", "type_of_tumor"}, rows |-> r] :
        r \in SeqsUpTo(IdRows, MaxRows)} \cup
    {[status |-> "ok", columns |-> {"type_of_tumor"}, rows |-> r] :
        r \in SeqsUpTo(OtherRows, MaxRows)}

\* arguments of the lookups
QueryIndices == (-1)..MaxFiles
QueryCombinedIds ==
    { <<"1", ".", "2", "_", "2">>, <<"1", ".", "2", "_", "1", "0">>,
      <<"9", ".", "9", "_", "1">> }
QueryPatientIds ==
    { <<"S", "1", ".", "2">>, <<"S", ".", "1", ".", "2", "0">>,
      <<"S", "9", ".", "9">>, <<"1", ".", "2">> }
\* (patient_id, fov) pairs
QueryPatientFovs ==
    { <<<<"S", "1", ".", "2">>, <<"2">>>>,
      <<<<"S", "1", ".", "2">>, <<"1", "0">>>>,
      <<<<"S", "1", ".", "2">>, <<"1">>>>,
      <<<<"S", "1", ".", "2", "0">>, <<"1">>>> }

\* values handed to the normalizer on its own
IdAlphabet == {"S", ".", " ", "1", "\t"}
NormInputs == {Str(s) : s \in SeqsUpTo(IdAlphabet, MaxIdLen)} \cup {NaN}

-----------------------------------------------------------------------------
(* State                                                                   *)

NoCall == [op |-> "none", args |-> <<>>, outcome |-> "none", value |-> PyNone]

Init ==
    /\ pc = "new"
    /\ hsi_data_dir \in Directories
    /\ csv_file \in CsvFiles
    /\ metadata_df = EmptyDataFrame
    /\ cube_samples = <<>>
    /\ sample_map = <<>>
    /\ printed = <<>>
    /\ last = NoCall
    /\ loaded = <<>>
    /\ norm_trace = <<>>

\* the end of __init__: sort the samples found, then build the lookup table
Indexed(meta, found, sorted) ==
    /\ metadata_df' = meta.df
    /\ printed' = meta.printed \o found.printed
    /\ IF found.raised
       THEN /\ pc' = "raised"
            /\ UNCHANGED <<cube_samples, sample_map>>
       ELSE /\ pc' = "ready"
            /\ cube_samples' = sorted
            /\ sample_map' = BuildSampleMap(sorted)

Scanned(meta, found) == Indexed(meta, found, SortByCombinedId(found.samples))

Loaded(meta) == Scanned(meta, FindCubeSamples(hsi_data_dir, meta.df))

\* HSIDataset.__init__
Construct ==
    /\ pc = "new"
    /\ Loaded(LoadMetadata(csv_file))
    /\ UNCHANGED <<hsi_data_dir, csv_file, last, loaded, norm_trace>>

-----------------------------------------------------------------------------
(* The lookups. Each takes the set of files whose read fails in this call  *)
(* and gives the outcome, the value returned and the files handed to       *)
(* _load_hsi_cube, in order.                                               *)

\* HSIDataset._load_hsi_cube: the array stored in the file, None when the
\* read fails
LoadHsiCube(file_path, unreadable) ==
    IF file_path \in unreadable THEN PyNone ELSE [array_of |-> file_path]

\* the dict __getitem__ builds from a sample
ItemOf(sample_info, unreadable) ==
    [outcome |-> "return",
     value |-> [combined_id |-> sample_info.combined_id,
                patient_id |-> sample_info.patient_id,
                fov |-> sample_info.fov,
                hsi_cube |-> LoadHsiCube(sample_info.file_path, unreadable),
                metadata |-> sample_info.metadata],
     loaded |-> <<sample_info.file_path>>]

\* GetItem without the idx < 0 test: a negative index counts from the end
GetItemWraps(idx, unreadable) ==
    IF idx >= Len(cube_samples) \/ idx < -Len(cube_samples)
    THEN [outcome |-> "IndexError", value |-> PyNone, loaded |-> <<>>]
    ELSE ItemOf(cube_samples[IF idx < 0 THEN Len(cube_samples) + idx + 1
                             ELSE idx + 1], unreadable)

\* GetItem keeping the sample it returned last and reusing it
GetItemCached(idx, unreadable) ==
    IF idx < 0 \/ idx >= Len(cube_samples)
    THEN [outcome |-> "IndexError", value |-> PyNone, loaded |-> <<>>]
    ELSE IF /\ DOMAIN last.value = DOMAIN ItemOf(cube_samples[idx + 1], {}).value
            /\ last.value.combined_id = cube_samples[idx + 1].combined_id
         THEN [outcome |-> "return", value |-> last.value, loaded |-> <<>>]
         ELSE ItemOf(cube_samples[idx + 1], unreadable)

\* HSIDataset.__getitem__
GetItem(idx, unreadable) ==
    IF idx < 0 \/ idx >= Len(cube_samples)
    THEN [outcome |-> "IndexError", value |-> PyNone, loaded |-> <<>>]
    ELSE ItemOf(cube_samples[idx + 1], unreadable)

\* HSIDataset.get_sample_by_combined_id
GetSampleByCombinedId(combined_id, unreadable) ==
    IF combined_id \in DOMAIN sample_map
    THEN GetItem(sample_map[combined_id], unreadable)
    ELSE [outcome |-> "return", value |-> PyNone, loaded |-> <<>>]

\* the patient number both patient lookups derive from their argument
PatientNumberOf(patient_id) ==
    LET normalized_id == NormalizeIdCsv(Str(patient_id)).str IN
    IF StartsWith(normalized_id, <<"S">>) THEN Drop(normalized_id, 1)
    ELSE normalized_id

\* CollectFrom testing the patient number alone, without the "_" after it
RECURSIVE CollectFromNoSeparator(_, _, _)
CollectFromNoSeparator(idx, patient_number, unreadable) ==
    IF idx >= Len(cube_samples) THEN [value |-> <<>>, loaded |-> <<>>]
    ELSE LET rest == CollectFromNoSeparator(idx + 1, patient_number,
                                            unreadable) IN
         IF StartsWith(cube_samples[idx + 1].combined_id, patient_number)
         THEN LET item == GetItem(idx, unreadable) IN
              [value |-> <<item.value>> \o rest.value,
               loaded |-> item.loaded \o rest.loaded]
         ELSE rest

\* the loop of get_samples_by_patient_id over the samples from index idx on
RECURSIVE CollectFrom(_, _, _)
CollectFrom(idx, patient_number, unreadable) ==
    IF idx >= Len(cube_samples) THEN [value |-> <<>>, loaded |-> <<>>]
    ELSE LET rest == CollectFrom(idx + 1, patient_number, unreadable) IN
         IF StartsWith(cube_samples[idx + 1].combined_id,
                       patient_number \o <<"_">>)
         THEN LET item == GetItem(idx, unreadable) IN
              [value |-> <<item.value>> \o rest.value,
               loaded |-> item.loaded \o rest.loaded]
         ELSE rest

\* HSIDataset.get_samples_by_patient_id
GetSamplesByPatientId(patient_id, unreadable) ==
    LET found == CollectFrom(0, PatientNumberOf(patient_id), unreadable) IN
    [outcome |-> "return", value |-> [list |-> found.value],
     loaded |-> found.loaded]

\* HSIDataset.get_sample_by_patient_and_fov
GetSampleByPatientAndFov(patient_id, fov, unreadable) ==
    GetSampleByCombinedId(CombinedId(PatientNumberOf(patient_id), fov),
                          unreadable)

Range(s) == {s[i] : i \in 1..Len(s)}

\* Returns dropping from the index every sample whose load failed in the call
ReturnsEvicting(op, args, r) ==
    /\ last' = [op |-> op, args |-> args, outcome |-> r.outcome,
                value |-> r.value]
    /\ loaded' = r.loaded
    /\ cube_samples' =
          SelectSeq(cube_samples,
                    LAMBDA s : ~ \E k \in 1..Len(r.loaded) :
                        /\ r.loaded[k] = s.file_path
                        /\ (IF DOMAIN r.value = {"list"} THEN r.value.list[k]
                            ELSE r.value).hsi_cube = PyNone)
    /\ sample_map' = BuildSampleMap(cube_samples')
    /\ UNCHANGED <<pc, hsi_data_dir, csv_file, metadata_df, printed,
                   norm_trace>>

\* a call returns: what it gave and what it loaded replace the last call's
Returns(op, args, r) ==
    /\ last' = [op |-> op, args |-> args, outcome |-> r.outcome,
                value |-> r.value]
    /\ loaded' = r.loaded
    /\ UNCHANGED <<pc, hsi_data_dir, csv_file, metadata_df, cube_samples,
                   sample_map, printed, norm_trace>>

\* len(dataset)
Length ==
    /\ pc = "ready"
    /\ Returns("__len__", <<>>,
               [outcome |-> "return", value |-> [int |-> Len(cube_samples)],
                loaded |-> <<>>])

\* dataset[idx]
At ==
    /\ pc = "ready"
    /\ \E idx \in QueryIndices :
       \E unreadable \in SUBSET Range(GetItem(idx, {}).loaded) :
          Returns("__getitem__", <<idx>>, GetItem(idx, unreadable))

ByCompositeId ==
    /\ pc = "ready"
    /\ \E k \in QueryCombinedIds :
       \E unreadable \in SUBSET Range(GetSampleByCombinedId(k, {}).loaded) :
          Returns("get_sample_by_combined_id", <<k>>,
                  GetSampleByCombinedId(k, unreadable))

ByPatientId ==
    /\ pc = "ready"
    /\ \E p \in QueryPatientIds :
       \E unreadable \in SUBSET Range(GetSamplesByPatientId(p, {}).loaded) :
          Returns("get_samples_by_patient_id", <<p>>,
                  GetSamplesByPatientId(p, unreadable))

ByPatientAndFov ==
    /\ pc = "ready"
    /\ \E q \in QueryPatientFovs :
       \E unreadable \in
             SUBSET Range(GetSampleByPatientAndFov(q[1], q[2], {}).loaded) :
          Returns("get_sample_by_patient_and_fov", q,
                  GetSampleByPatientAndFov(q[1], q[2], unreadable))

Next ==
    \/ Construct
    \/ Length
    \/ At
    \/ ByCompositeId
    \/ ByPatientId
    \/ ByPatientAndFov

Spec == Init /\ [][Next]_vars

-----------------------------------------------------------------------------
(* The normalizer on its own: a value, then what each further application  *)
(* of _normalize_id_csv makes of it                                        *)

\* applications of the normalizer to one value
MaxApplications == 2

InitNormalize ==
    /\ pc = "normalize"
    /\ norm_trace \in {<<v>> : v \in NormInputs}
    /\ hsi_data_dir = [path |-> DirPath, isdir |-> FALSE, listing |-> <<>>]
    /\ csv_file = [status |-> "missing"]
    /\ metadata_df = EmptyDataFrame
    /\ cube_samples = <<>>
    /\ sample_map = <<>>
    /\ printed = <<>>
    /\ last = NoCall
    /\ loaded = <<>>

Normalize ==
    /\ pc = "normalize"
    /\ Len(norm_trace) <= MaxApplications
    /\ norm_trace' = Append(norm_trace, NormalizeIdCsv(norm_trace[Len(norm_trace)]))
    /\ UNCHANGED <<pc, hsi_data_dir, csv_file, metadata_df, cube_samples,
                   sample_map, printed, last, loaded>>

NextNormalize == Normalize

SpecNormalize == InitNormalize /\ [][NextNormalize]_vars

-----------------------------------------------------------------------------
(* Properties                                                              *)

Indices == 0..(Len(cube_samples) - 1)
CompositeIds == {cube_samples[i + 1].combined_id : i \in Indices}

SampleFields == {"combined_id", "patient_id", "fov", "hsi_cube", "metadata"}
IsSample(v) == DOMAIN v = SampleFields

\* the value v and the files read are those of the sample at index i
ReturnsSampleAt(v, i) ==
    /\ IsSample(v)
    /\ v.combined_id = cube_samples[i + 1].combined_id
    /\ v.patient_id = cube_samples[i + 1].patient_id
    /\ v.fov = cube_samples[i + 1].fov
    /\ v.metadata = cube_samples[i + 1].metadata
    /\ loaded = <<cube_samples[i + 1].file_path>>

\* the rows of the CSV file whose id normalises to the str id
CsvRowsFor(id) ==
    IF csv_file.status = "ok" /\ "id" \in csv_file.columns
    THEN {k \in 1..Len(csv_file.rows) :
             NormalizeIdCsv(csv_file.rows[k].id) = Str(id)}
    ELSE {}

\* C1: after construction no two samples share a CompositeID, and the
\* lookup table holds one entry per sample (no entry was overwritten).
C1_CompositeIdsUnique ==
    pc = "ready" =>
        /\ \A i, j \in Indices :
              i # j => cube_samples[i + 1].combined_id # cube_samples[j + 1].combined_id
        /\ Cardinality(DOMAIN sample_map) = Len(cube_samples)

\* C2: byPatientAndFov(s.patient_id, s.fov) returns the sample s, for every
\* sample s of the collection.
C2_PatientAndFovRoundTrip ==
    last.op = "get_sample_by_patient_and_fov" =>
        \A i \in Indices :
            (/\ cube_samples[i + 1].patient_id = last.args[1]
             /\ cube_samples[i + 1].fov = last.args[2])
            => (last.outcome = "return" /\ ReturnsSampleAt(last.value, i))

\* C3: byCompositeId(at(i).CompositeID) returns the content of at(i), for
\* every index i of the collection.
C3_ByCompositeIdAgreesWithAt ==
    last.op = "get_sample_by_combined_id" =>
        \A i \in Indices :
            cube_samples[i + 1].combined_id = last.args[1]
            => (last.outcome = "return" /\ ReturnsSampleAt(last.value, i))

\* C4: byPatientId returns its samples in ascending order of the FOV number,
\* compared as integers.
C4_ByPatientIdFovAscending ==
    last.op = "get_samples_by_patient_id" =>
        \A i, j \in 1..Len(last.value.list) :
            i < j => ToInt(last.value.list[i].fov) <= ToInt(last.value.list[j].fov)

\* C5: normalising a normalised value changes nothing, and a value that is
\* not a str is returned as it is.
C5_NormalizeIdempotent ==
    /\ Len(norm_trace) >= 3 => norm_trace[3] = norm_trace[2]
    /\ (Len(norm_trace) >= 2 /\ ~IsStr(norm_trace[1])) => norm_trace[2] = norm_trace[1]

\* the entries the index is to hold: the name matches the pattern and the
\* CSV has a row for its canonical identifier
Indexable(filename) ==
    /\ hsi_data_dir.isdir
    /\ PatternMatch(filename).matched
    /\ CsvRowsFor(NormalizeIdFilename(PatternMatch(filename).group1)) # {}

SamplesOf(filename) ==
    {i \in Indices :
        cube_samples[i + 1].file_path = JoinPath(hsi_data_dir, filename)}

Listed == {hsi_data_dir.listing[k] : k \in 1..Len(hsi_data_dir.listing)}

Min(S) == CHOOSE x \in S : \A y \in S : x <= y

\* C6: after construction the collection holds exactly one sample for each
\* entry whose name matches the pattern and whose canonical identifier has a
\* row in the CSV, no sample for any other entry, and each sample carries
\* the (first) CSV row of its own canonical identifier.
C6_IndexHoldsExactlyTheJoinedEntries ==
    pc = "ready" =>
        /\ \A f \in Listed :
              Cardinality(SamplesOf(f)) = IF Indexable(f) THEN 1 ELSE 0
        /\ \A i \in Indices : \E f \in Listed : i \in SamplesOf(f)
        /\ \A i \in Indices :
              /\ CsvRowsFor(cube_samples[i + 1].patient_id) # {}
              /\ cube_samples[i + 1].metadata.id =
                    csv_file.rows[Min(CsvRowsFor(cube_samples[i + 1].patient_id))].id
              /\ cube_samples[i + 1].metadata.type_of_tumor =
                    csv_file.rows[Min(CsvRowsFor(cube_samples[i + 1].patient_id))].type_of_tumor

\* C6 witness: a directory of two matching names: one is joined, its identifier
\* having two CSV rows, and the other has no row
C6_Witness ==
    /\ pc = "ready"
    /\ Len(cube_samples) = 1
    /\ Cardinality(Listed) = 2
    /\ \A f \in Listed : PatternMatch(f).matched
    /\ Cardinality(CsvRowsFor(cube_samples[1].patient_id)) = 2

\* C7: every entry left out of the index is reported with exactly one
\* warning (one printed line naming the file).
C7_EveryExcludedEntryWarned ==
    (pc = "ready" /\ hsi_data_dir.isdir) =>
        \A f \in Listed :
            SamplesOf(f) = {} =>
                Cardinality({m \in 1..Len(printed) :
                                /\ "file" \in DOMAIN printed[m]
                                /\ printed[m].file = f}) = 1

C9_UnresolvedLookupsReported ==
    /\ (last.op = "__getitem__" /\ last.args[1] \notin Indices)
          => (last.outcome = "IndexError" /\ loaded = <<>>)
    /\ (last.op = "get_sample_by_combined_id" /\ last.args[1] \notin CompositeIds)
          => (last.outcome = "return" /\ last.value = PyNone)
    /\ (/\ last.op = "get_sample_by_patient_and_fov"
        /\ CombinedId(PatientNumberOf(last.args[1]), last.args[2]) \notin CompositeIds)
          => (last.outcome = "return" /\ last.value = PyNone)
    /\ (last.op = "get_sample_by_combined_id" /\ IsSample(last.value))
          => last.value.combined_id = last.args[1]

\* C9 witness: index -1 asked of a collection that has samples
C9_Witness ==
    /\ last.op = "__getitem__"
    /\ last.args[1] = -1
    /\ Len(cube_samples) >= 1
    /\ last.outcome = "IndexError"

SingleLookups ==
    {"__getitem__", "get_sample_by_combined_id", "get_sample_by_patient_and_fov"}

\* C10 as claimed, read in its favour (calls that return no sample set
\* aside): every retrieval call that returns a sample, or a list with
\* samples, hands exactly one file to the loader.
C10_OneLoadPerCall ==
    /\ (last.op \in SingleLookups /\ IsSample(last.value)) => Len(loaded) = 1
    /\ (last.op = "get_samples_by_patient_id" /\ last.value.list # <<>>)
          => Len(loaded) = 1

\* C10 as amended: construction loads nothing, and every retrieval call,
\* repeated or not, hands the loader one file per sample it returns: one
\* when a single lookup finds its sample, none when it raises or returns
\* None, and one per sample of the list byPatientId returns.
C10_OneLoadPerSampleReturned ==
    /\ (pc = "ready" /\ last = NoCall) => loaded = <<>>
    /\ last.op \in SingleLookups
          => Len(loaded) = IF last.outcome = "return" /\ IsSample(last.value)
                           THEN 1 ELSE 0
    /\ last.op = "get_samples_by_patient_id"
          => Len(loaded) = Len(last.value.list)

\* C10 witness: one byPatientId call that returned two samples
C10_Witness ==
    /\ last.op = "get_samples_by_patient_id"
    /\ Len(last.value.list) = 2
    /\ Len(loaded) = 2

\* a value a call returned holds a sample whose cube is None
HoldsNoCube(value) ==
    \/ IsSample(value) /\ value.hsi_cube = PyNone
    \/ /\ DOMAIN value = {"list"}
       /\ \E k \in 1..Len(value.list) : value.list[k].hsi_cube = PyNone

\* the last call handed a file to the loader and the read failed
LoadFailed == HoldsNoCube(last.value)

\* the last call made once more, unreadable being the files whose read fails
Again(unreadable) ==
    IF last.op = "__getitem__" THEN GetItem(last.args[1], unreadable)
    ELSE IF last.op = "get_sample_by_combined_id"
    THEN GetSampleByCombinedId(last.args[1], unreadable)
    ELSE IF last.op = "get_samples_by_patient_id"
    THEN GetSamplesByPatientId(last.args[1], unreadable)
    ELSE GetSampleByPatientAndFov(last.args[1], last.args[2], unreadable)

\* C11: once the index is built, every facade call (length, at,
\* byCompositeId, byPatientId, byPatientAndFov), whether it returns a
\* sample, reports not-found, raises out-of-range or has its cube load
\* fail, leaves the sample sequence and the CompositeID -> index table as
\* they were and the object usable; whatever the call before did, an access
\* at an index in range returns the sample at that index, and after a call
\* whose load failed the same call made again reads the same files and
\* depends on nothing but which of them can be read: it repeats the result
\* while they stay unreadable and delivers the cubes once they are readable.
C11_FacadeLeavesIndexUnchanged ==
    /\ [][pc = "ready" =>
             /\ pc' = "ready"
             /\ cube_samples' = cube_samples
             /\ sample_map' = sample_map
             /\ metadata_df' = metadata_df
             /\ \A i \in Indices :
                   (last'.op = "__getitem__" /\ last'.args = <<i>>)
                      => /\ last'.outcome = "return"
                         /\ IsSample(last'.value)
                         /\ last'.value.combined_id
                               = cube_samples[i + 1].combined_id
                         /\ loaded' = <<cube_samples[i + 1].file_path>>]_vars
    /\ [](LoadFailed =>
            /\ \E unreadable \in SUBSET Range(loaded) :
                  Again(unreadable) = [outcome |-> last.outcome,
                                       value |-> last.value,
                                       loaded |-> loaded]
            /\ Again({}).outcome = "return"
            /\ Again({}).loaded = loaded
            /\ ~ HoldsNoCube(Again({}).value))

\* C11 witness: the last call was a byPatientId whose first cube failed to
\* load and whose second loaded, on an index that still holds both samples
C11_Witness ==
    /\ pc = "ready"
    /\ last.op = "get_samples_by_patient_id"
    /\ Len(last.value.list) = 2
    /\ last.value.list[1].hsi_cube = PyNone
    /\ last.value.list[2].hsi_cube # PyNone
    /\ Len(cube_samples) = 2

\* the orders in which os.listdir may enumerate the entries of the directory
Enumerations(dir) ==
    {l \in Listings(Range(dir.listing), Len(dir.listing)) :
        Len(l) = Len(dir.listing)}

\* the sample sequence a build makes when the entries come in the order l
BuildOver(l) ==
    SortByCombinedId(
        FindCubeSamples([hsi_data_dir EXCEPT !.listing = l], metadata_df).samples)

\* C12: a build over the same files and the same metadata table, with the
\* directory entries enumerated in any other order, makes the same sample
\* sequence and the same CompositeID -> index table as the build that was
\* made, so at(i) and byCompositeId(k) return the same sample in both.
C12_BuildIndependentOfEnumerationOrder ==
    pc = "ready" =>
       \A l \in Enumerations(hsi_data_dir) :
          /\ BuildOver(l) = cube_samples
          /\ BuildSampleMap(BuildOver(l)) = sample_map

\* the samples of the index whose patient identifier is id, in index order
SamplesOfPatient(id) ==
    SelectSeq(cube_samples, LAMBDA sample : sample.patient_id = id)

\* the last call returned the samples expected, in order, each read from
\* its own file
ReturnedList(expected) ==
    /\ last.outcome = "return"
    /\ DOMAIN last.value = {"list"}
    /\ Len(last.value.list) = Len(expected)
    /\ Len(loaded) = Len(expected)
    /\ \A k \in 1..Len(expected) :
          /\ IsSample(last.value.list[k])
          /\ last.value.list[k].combined_id = expected[k].combined_id
          /\ last.value.list[k].patient_id = expected[k].patient_id
          /\ last.value.list[k].fov = expected[k].fov
          /\ last.value.list[k].metadata = expected[k].metadata
          /\ loaded[k] = expected[k].file_path

\* C13 as claimed: byPatientId(p) returns exactly the samples whose patient
\* identifier equals normalize(p): all of that patient's, none of another
\* patient's, none at all when the patient has no sample.
C13_ByPatientIdExactlyNormalized ==
    last.op = "get_samples_by_patient_id"
       => ReturnedList(SamplesOfPatient(NormalizeIdCsv(Str(last.args[1])).str))

\* C13 as amended: byPatientId(p) returns exactly the samples whose patient
\* identifier is "S" followed by the patient number of p, which is
\* normalize(p) without its leading "S" when it has one and normalize(p)
\* itself when it has none: all of that patient's samples in index order,
\* none of a patient whose number merely starts with that number, and the
\* empty list when the patient has no sample.
C13_ByPatientIdExactlyPatientNumber ==
    last.op = "get_samples_by_patient_id"
       => ReturnedList(SamplesOfPatient(<<"S">> \o PatientNumberOf(last.args[1])))

\* C13 witness: S1.2 was asked for of an index that holds a sample of S1.2
\* and a sample of S1.20, and the call returned the one of S1.2 alone
C13_Witness ==
    /\ last.op = "get_samples_by_patient_id"
    /\ last.args = << <<"S", "1", ".", "2">> >>
    /\ Len(cube_samples) = 2
    /\ {cube_samples[1].patient_id, cube_samples[2].patient_id}
          = {<<"S", "1", ".", "2">>, <<"S", "1", ".", "2", "0">>}
    /\ Len(last.value.list) = 1
    /\ last.value.list[1].patient_id = <<"S", "1", ".", "2">>

====
